---- MODULE Spec2Model ----
(***************************************************************************)
(* A model of etc/scripts/helion_wrapper.py: the command-line driver that  *)
(* loads a user module, discovers its public Helion kernels, and writes    *)
(* the Triton code of each to an output file.                              *)
(*                                                                         *)
(* The Helion library, the tensor library and the user module are not part *)
(* of the wrapper.  A kernel is modelled by what the wrapper observes of   *)
(* it: the first line of its callable (if readable), whether its           *)
(* bind / default_config / to_triton_code sequence raises, and the text it *)
(* generates.  Only exceptions of class Exception are modelled (the two    *)
(* except clauses of the wrapper catch exactly those).                     *)
(***************************************************************************)
EXTENDS Integers, Sequences, FiniteSets, TLC

VARIABLES
    argv,         \* the command line: which of the two required flags are given
    infile,       \* what the file at --inputfile defines (fixed for the run)
    fileExists,   \* whether a file exists at the --outputfile path
    content,      \* the content of that file, a sequence of tokens
    pc,           \* position of the process in main
    mod,          \* namespace of the loaded module (name -> value)
    loaded,       \* the user module was executed to its end
    imported,     \* the wrapper's import of the kernel library succeeded
    kernels,      \* main's local list "kernels"
    idx,          \* number of loop iterations started
    triton_code,  \* main's local "triton_code"
    outOpen,      \* the handle "out" is open
    opens,        \* how many times the output file was opened
    error,        \* the exception caught by the top-level handler
    stderr,       \* lines written to the error stream
    stderrRaised, \* the write to the error stream raised (and was suppressed)
    exitStatus,   \* <<>> while running, <<status>> once the process ended
    run,          \* which run of the tool this is (1 or 2)
    firstOut,     \* output file content at the end of the first run
    firstStatus,  \* exit status of the first run
    sig,          \* _make_fake_args: annotations of kernel.fn's parameters
    torchOk,      \* _make_fake_args: "import torch" succeeds
    mfaPc,        \* _make_fake_args: position
    fake_args,    \* _make_fake_args: local list "fake_args"
    emptyRaised   \* _make_fake_args: parameter positions where torch.empty raised

envVars  == <<argv, infile, fileExists, content>>
procVars == <<pc, mod, loaded, imported, kernels, idx, triton_code, outOpen,
              opens, error, stderr, stderrRaised, exitStatus>>
runVars  == <<run, firstOut, firstStatus>>
mfaVars  == <<sig, torchOk, mfaPc, fake_args, emptyRaised>>
vars     == <<envVars, procVars, runVars, mfaVars>>

----------------------------------------------------------------------------
(* Bounds of the model *)

NumKernels == 2
MaxLine == 2
MaxParams == 4

(* Exit statuses *)

ExitOk == 0
ExitUsage == 2
ExitError == 255

----------------------------------------------------------------------------
(* The input: the user module *)

Kernels == 1 .. NumKernels

\* Top-level names, each a sequence of characters.
Names == { <<"_", "k">>, <<"a">>, <<"b">> }

\* inspect.getmembers returns the members sorted by name ("_" sorts before
\* the lower-case letters).
GetMembers == << <<"_", "k">>, <<"a">>, <<"b">> >>

\* A value bound to a name: 0 is an object that is no Kernel, k >= 1 is the
\* Kernel instance k.
Values == 0 .. NumKernels

\* The callable of a kernel: its code object's first line when it has one.
FnObjects ==
    { [hasCode |-> FALSE, co_firstlineno |-> 1] }
    \cup { [hasCode |-> TRUE, co_firstlineno |-> l] : l \in 1 .. MaxLine }

NoFile ==
    [exists |-> FALSE,
     ns     |-> [n \in Names |-> 0],
     fn     |-> [k \in Kernels |-> [hasCode |-> FALSE, co_firstlineno |-> 1]],
     raises |-> [k \in Kernels |-> FALSE]]

InputFiles ==
    { NoFile }
    \cup [exists : {TRUE},
          ns     : [Names -> Values],
          fn     : [Kernels -> FnObjects],
          raises : [Kernels -> BOOLEAN]]

----------------------------------------------------------------------------
(* Text *)

NL == [text |-> "\n", k |-> 0]
OldText == [text |-> "previous content", k |-> 0]

\* The text to_triton_code returns for kernel k, as one token.
Code(k) == [text |-> "triton code", k |-> k]

IntArg(n) == [isInt |-> TRUE, n |-> n, s |-> ""]
StrArg(s) == [isInt |-> FALSE, n |-> 0, s |-> s]

Digits == <<"0", "1", "2", "3", "4", "5", "6", "7", "8", "9">>

RECURSIVE IntStr(_)
IntStr(n) ==
    IF n < 10 THEN Digits[n + 1]
    ELSE IntStr(n \div 10) \o Digits[(n % 10) + 1]

\* str(m) of an exception argument.
PyStr(m) == IF m.isInt THEN IntStr(m.n) ELSE m.s

\* str(m) + "\n"
Line(s) == [text |-> s, nl |-> TRUE]

----------------------------------------------------------------------------
(* Exceptions *)

NoError == [site |-> "none", type |-> "none", args |-> <<>>, str |-> ""]

FileNotFound ==
    [type |-> "FileNotFoundError",
     args |-> <<IntArg(2), StrArg("No such file or directory")>>,
     str  |-> "[Errno 2] No such file or directory"]
AssertionErr == [type |-> "AssertionError", args |-> <<>>, str |-> ""]
UserError == [type |-> "RuntimeError", args |-> <<StrArg("boom")>>, str |-> "boom"]
CustomError == [type |-> "CustomError", args |-> <<>>, str |-> "custom text"]
ImportErr ==
    [type |-> "ModuleNotFoundError",
     args |-> <<StrArg("No module named 'helion'")>>,
     str  |-> "No module named 'helion'"]
PermissionErr ==
    [type |-> "PermissionError",
     args |-> <<IntArg(13), StrArg("Permission denied")>>,
     str  |-> "[Errno 13] Permission denied"]
NoSpaceErr ==
    [type |-> "OSError",
     args |-> <<IntArg(28), StrArg("No space left on device")>>,
     str  |-> "[Errno 28] No space left on device"]

\* What _load_module can raise: for a path that does not exist, exec_module
\* raises FileNotFoundError, or the assert fails when the path's suffix gives
\* no loader; for an existing file, whatever the user code raises.
LoadErrors(f) ==
    IF f.exists THEN {UserError, CustomError} ELSE {FileNotFound, AssertionErr}

Raised(site, e) == [site |-> site, type |-> e.type, args |-> e.args, str |-> e.str]

----------------------------------------------------------------------------
(* Initial states *)

ProcInit ==
    /\ pc = "parse"
    /\ mod = [n \in Names |-> 0]
    /\ loaded = FALSE
    /\ imported = FALSE
    /\ kernels = <<>>
    /\ idx = 0
    /\ triton_code = NL
    /\ outOpen = FALSE
    /\ opens = 0
    /\ error = NoError
    /\ stderr = <<>>
    /\ stderrRaised = FALSE
    /\ exitStatus = <<>>

MfaIdle ==
    /\ sig = <<>>
    /\ torchOk = TRUE
    /\ mfaPc = "idle"
    /\ fake_args = <<>>
    /\ emptyRaised = {}

Init ==
    /\ argv \in [inputfile : BOOLEAN, outputfile : BOOLEAN]
    /\ infile \in InputFiles
    /\ fileExists \in BOOLEAN
    /\ content = IF fileExists THEN <<OldText>> ELSE <<>>
    /\ ProcInit
    /\ run = 1
    /\ firstOut = <<>>
    /\ firstStatus = <<>>
    /\ MfaIdle

----------------------------------------------------------------------------
(* main: argument parsing (lines 70-73) *)

UsageLines ==
    << Line("usage: helion_wrapper.py [-h] --inputfile INPUTFILE --outputfile OUTPUTFILE"),
       Line("helion_wrapper.py: error: the following arguments are required") >>

\* A faulty variant of ParseArgs: the parse is inside the try block and its failure
\* is an Exception.
ParseArgsInTry ==
    /\ pc = "parse"
    /\ IF argv.inputfile /\ argv.outputfile
       THEN /\ pc' = "load"
            /\ UNCHANGED error
       ELSE /\ pc' = "handler"
            /\ error' = Raised("parse", AssertionErr)
    /\ UNCHANGED <<envVars, mod, loaded, imported, kernels, idx, triton_code,
                   outOpen, opens, stderr, stderrRaised, exitStatus, runVars,
                   mfaVars>>

\* parser.parse_args(): a missing required flag makes argparse print the usage
\* and call sys.exit(2); this is outside the try block.
ParseArgs ==
    /\ pc = "parse"
    /\ IF argv.inputfile /\ argv.outputfile
       THEN /\ pc' = "load"
            /\ UNCHANGED <<stderr, exitStatus>>
       ELSE /\ pc' = "exited"
            /\ stderr' = stderr \o UsageLines
            /\ exitStatus' = <<ExitUsage>>
    /\ UNCHANGED <<envVars, mod, loaded, imported, kernels, idx, triton_code,
                   outOpen, opens, error, stderrRaised, runVars, mfaVars>>

----------------------------------------------------------------------------
(* main: module load and library import (lines 76-79) *)

\* mod = _load_module(path=args.inputfile) returns.
LoadModule ==
    /\ pc = "load"
    /\ infile.exists
    /\ mod' = infile.ns
    /\ loaded' = TRUE
    /\ pc' = "import"
    /\ UNCHANGED <<envVars, imported, kernels, idx, triton_code, outOpen, opens,
                   error, stderr, stderrRaised, exitStatus, runVars, mfaVars>>

\* A faulty variant of LoadModuleRaises: the exception is swallowed and main goes on.
LoadModuleRaisesSwallowed ==
    /\ pc = "load"
    /\ pc' = "import"
    /\ UNCHANGED <<envVars, mod, loaded, imported, kernels, idx, triton_code,
                   outOpen, opens, error, stderr, stderrRaised, exitStatus,
                   runVars, mfaVars>>

\* _load_module raises: the exception reaches the handler of main.
LoadModuleRaises ==
    /\ pc = "load"
    /\ \E e \in LoadErrors(infile) : error' = Raised("load", e)
    /\ pc' = "handler"
    /\ UNCHANGED <<envVars, mod, loaded, imported, kernels, idx, triton_code,
                   outOpen, opens, stderr, stderrRaised, exitStatus, runVars,
                   mfaVars>>

\* import helion / from helion.runtime.kernel import Kernel succeed.
ImportHelion ==
    /\ pc = "import"
    /\ imported' = TRUE
    /\ pc' = "discover"
    /\ UNCHANGED <<envVars, mod, loaded, kernels, idx, triton_code, outOpen,
                   opens, error, stderr, stderrRaised, exitStatus, runVars,
                   mfaVars>>

ImportRaises ==
    /\ pc = "import"
    /\ error' = Raised("import", ImportErr)
    /\ pc' = "handler"
    /\ UNCHANGED <<envVars, mod, loaded, imported, kernels, idx, triton_code,
                   outOpen, opens, stderr, stderrRaised, exitStatus, runVars,
                   mfaVars>>

----------------------------------------------------------------------------
(* main: kernel discovery and sorting (lines 82-95) *)

\* A faulty variant of IsPublic: the underscore filter is dropped.
IsPublicAlways(name) == TRUE

\* not name.startswith("_")
IsPublic(name) == ~(Len(name) >= 1 /\ name[1] = "_")

\* isinstance(value, Kernel)
IsKernel(value) == value \in Kernels

\* [value for name, value in inspect.getmembers(mod)
\*  if not name.startswith("_") and isinstance(value, Kernel)]
KernelList(ns) ==
    LET kept == SelectSeq(GetMembers, LAMBDA n : IsPublic(n) /\ IsKernel(ns[n]))
    IN  [i \in 1 .. Len(kept) |-> ns[kept[i]]]

\* _line_no(k): k.fn.__code__.co_firstlineno, or 0 when reading it raises.
line_no(k) ==
    IF infile.fn[k].hasCode THEN infile.fn[k].co_firstlineno ELSE 0

\* One step of the sort: x goes after every element whose key is not larger.
Insert(acc, x) ==
    LET n == Cardinality({i \in 1 .. Len(acc) : line_no(acc[i]) <= line_no(x)})
    IN  SubSeq(acc, 1, n) \o <<x>> \o SubSeq(acc, n + 1, Len(acc))

RECURSIVE SortFrom(_, _)
SortFrom(acc, rest) ==
    IF rest = <<>> THEN acc ELSE SortFrom(Insert(acc, Head(rest)), Tail(rest))

\* A faulty variant of Sorted: the list is left in the order it came in.
SortedNot(seq) == seq

\* sorted(seq, key=_line_no): ascending by key, stable.
Sorted(seq) == SortFrom(<<>>, seq)

\* The orders in which iterating a set of objects can yield its elements: the
\* order follows the objects' hashes, which are their addresses.
IterationOrders(S) ==
    {p \in [1 .. Cardinality(S) -> S] : \A i, j \in DOMAIN p : i # j => p[i] # p[j]}

SetOf(seq) == {seq[i] : i \in DOMAIN seq}

\* kernels = [...]; kernels = sorted(set(kernels), key=_line_no)
Discover ==
    /\ pc = "discover"
    /\ \E order \in IterationOrders(SetOf(KernelList(mod))) :
          kernels' = Sorted(order)
    /\ pc' = "open"
    /\ UNCHANGED <<envVars, mod, loaded, imported, idx, triton_code, outOpen,
                   opens, error, stderr, stderrRaised, exitStatus, runVars,
                   mfaVars>>

----------------------------------------------------------------------------
(* main: the output file and the per-kernel loop (lines 98-109) *)

\* A faulty variant of OpenOutput: the file is opened for appending.
OpenOutputAppend ==
    /\ pc = "open"
    /\ fileExists' = TRUE
    /\ outOpen' = TRUE
    /\ opens' = opens + 1
    /\ pc' = "loop"
    /\ UNCHANGED <<argv, infile, content, mod, loaded, imported, kernels, idx,
                   triton_code, error, stderr, stderrRaised, exitStatus,
                   runVars, mfaVars>>

\* open(args.outputfile, "w", encoding="utf-8"): creates or truncates the file.
OpenOutput ==
    /\ pc = "open"
    /\ fileExists' = TRUE
    /\ content' = <<>>
    /\ outOpen' = TRUE
    /\ opens' = opens + 1
    /\ pc' = "loop"
    /\ UNCHANGED <<argv, infile, mod, loaded, imported, kernels, idx,
                   triton_code, error, stderr, stderrRaised, exitStatus,
                   runVars, mfaVars>>

\* open raises: no handle, the file system is left as it was.
OpenRaises ==
    /\ pc = "open"
    /\ error' = Raised("open", PermissionErr)
    /\ pc' = "handler"
    /\ UNCHANGED <<envVars, mod, loaded, imported, kernels, idx, triton_code,
                   outOpen, opens, stderr, stderrRaised, exitStatus, runVars,
                   mfaVars>>

\* for kernel in kernels: the next kernel, or the end of the with block (the
\* handle is closed) and of main.
LoopNext ==
    /\ pc = "loop"
    /\ IF idx < Len(kernels)
       THEN /\ idx' = idx + 1
            /\ pc' = "args"
            /\ UNCHANGED <<outOpen, exitStatus>>
       ELSE /\ outOpen' = FALSE
            /\ exitStatus' = <<ExitOk>>
            /\ pc' = "exited"
            /\ UNCHANGED idx
    /\ UNCHANGED <<envVars, mod, loaded, imported, kernels, triton_code, opens,
                   error, stderr, stderrRaised, runVars, mfaVars>>

\* The kernel of the current iteration.
kernel == kernels[idx]

TrySteps == <<"args", "bind", "config", "codegen">>

StepIndex(p) == CHOOSE i \in DOMAIN TrySteps : TrySteps[i] = p

\* One call of the try body returns: _make_fake_args(kernel), kernel.bind(...),
\* bound.config_spec.default_config(), bound.to_triton_code(cfg).  A kernel
\* whose sequence raises can pass every step but the last.
StepReturns ==
    /\ pc \in SetOf(TrySteps)
    /\ infile.raises[kernel] => pc # "codegen"
    /\ IF pc = "codegen"
       THEN /\ triton_code' = Code(kernel)
            /\ pc' = "write_code"
       ELSE /\ pc' = TrySteps[StepIndex(pc) + 1]
            /\ UNCHANGED triton_code
    /\ UNCHANGED <<envVars, mod, loaded, imported, kernels, idx, outOpen, opens,
                   error, stderr, stderrRaised, exitStatus, runVars, mfaVars>>

\* A faulty variant of StepRaises: the except clause prints a hint for the user.
StepRaisesWritesHint ==
    /\ pc \in SetOf(TrySteps)
    /\ infile.raises[kernel]
    /\ content' = Append(content, [text |-> "# could not compile", k |-> kernel])
    /\ pc' = "loop"
    /\ UNCHANGED <<argv, infile, fileExists, mod, loaded, imported, kernels,
                   idx, triton_code, outOpen, opens, error, stderr,
                   stderrRaised, exitStatus, runVars, mfaVars>>

\* One call of the try body raises: except Exception: continue.
StepRaises ==
    /\ pc \in SetOf(TrySteps)
    /\ infile.raises[kernel]
    /\ pc' = "loop"
    /\ UNCHANGED <<envVars, mod, loaded, imported, kernels, idx, triton_code,
                   outOpen, opens, error, stderr, stderrRaised, exitStatus,
                   runVars, mfaVars>>

\* out.write(triton_code)
WriteCode ==
    /\ pc = "write_code"
    /\ content' = Append(content, triton_code)
    /\ pc' = "write_sep"
    /\ UNCHANGED <<argv, infile, fileExists, mod, loaded, imported, kernels,
                   idx, triton_code, outOpen, opens, error, stderr,
                   stderrRaised, exitStatus, runVars, mfaVars>>

\* out.write("\n\n")
WriteSep ==
    /\ pc = "write_sep"
    /\ content' = content \o <<NL, NL>>
    /\ pc' = "loop"
    /\ UNCHANGED <<argv, infile, fileExists, mod, loaded, imported, kernels,
                   idx, triton_code, outOpen, opens, error, stderr,
                   stderrRaised, exitStatus, runVars, mfaVars>>

\* A faulty variant of WriteRaises: the file is not under a with statement.
WriteRaisesNoClose ==
    /\ pc \in {"write_code", "write_sep"}
    /\ error' = Raised("write", NoSpaceErr)
    /\ pc' = "handler"
    /\ UNCHANGED <<envVars, mod, loaded, imported, kernels, idx, triton_code,
                   outOpen, opens, stderr, stderrRaised, exitStatus, runVars,
                   mfaVars>>

\* A write raises: the with statement closes the handle, and the exception
\* reaches the handler of main.
WriteRaises ==
    /\ pc \in {"write_code", "write_sep"}
    /\ outOpen' = FALSE
    /\ error' = Raised("write", NoSpaceErr)
    /\ pc' = "handler"
    /\ UNCHANGED <<envVars, mod, loaded, imported, kernels, idx, triton_code,
                   opens, stderr, stderrRaised, exitStatus, runVars, mfaVars>>

----------------------------------------------------------------------------
(* main: the top-level handler (lines 111-116) *)

\* A faulty variant of Messages: only the string form is reported.
MessagesStrOnly(e) == <<StrArg(e.str)>>

\* getattr(error, "args", None) or [str(error)]
Messages(e) == IF Len(e.args) > 0 THEN e.args ELSE <<StrArg(e.str)>>

\* [str(m) + "\n" for m in messages]
ErrLines(e) == [i \in 1 .. Len(Messages(e)) |-> Line(PyStr(Messages(e)[i]))]

\* except Exception as error: the lines are written under
\* contextlib.suppress(Exception), so the write may stop after any number of
\* lines without effect on what follows; then sys.exit(255).
Handler ==
    /\ pc = "handler"
    /\ \E n \in 0 .. Len(ErrLines(error)) :
          /\ stderr' = stderr \o SubSeq(ErrLines(error), 1, n)
          /\ stderrRaised' = (n < Len(ErrLines(error)))
    /\ exitStatus' = <<ExitError>>
    /\ pc' = "exited"
    /\ UNCHANGED <<envVars, mod, loaded, imported, kernels, idx, triton_code,
                   outOpen, opens, error, runVars, mfaVars>>

----------------------------------------------------------------------------
Next ==
    \/ ParseArgs
    \/ LoadModule
    \/ LoadModuleRaises
    \/ ImportHelion
    \/ ImportRaises
    \/ Discover
    \/ OpenOutput
    \/ OpenRaises
    \/ LoopNext
    \/ StepReturns
    \/ StepRaises
    \/ WriteCode
    \/ WriteSep
    \/ WriteRaises
    \/ Handler

Spec == Init /\ [][Next]_vars

----------------------------------------------------------------------------
(* A second run of the tool on the same command line and input file *)

\* The process has ended; the tool is started again.  The file system keeps
\* what the first run left, the process state is new.
Rerun ==
    /\ pc = "exited"
    /\ run = 1
    /\ run' = 2
    /\ firstOut' = content
    /\ firstStatus' = exitStatus
    /\ pc' = "parse"
    /\ mod' = [n \in Names |-> 0]
    /\ loaded' = FALSE
    /\ imported' = FALSE
    /\ kernels' = <<>>
    /\ idx' = 0
    /\ triton_code' = NL
    /\ outOpen' = FALSE
    /\ opens' = 0
    /\ error' = NoError
    /\ stderr' = <<>>
    /\ stderrRaised' = FALSE
    /\ exitStatus' = <<>>
    /\ UNCHANGED <<envVars, mfaVars>>

NextRerun == Next \/ Rerun

SpecRerun == Init /\ [][NextRerun]_vars

----------------------------------------------------------------------------
(* _make_fake_args (lines 43-66) *)

\* The annotation objects a parameter can carry: the three scalar types, a
\* tensor type, no annotation (inspect.Parameter.empty), and the string "int"
\* that a stringized annotation leaves.
Annotations == {"int", "float", "bool", "Tensor", "empty", "'int'"}

Signatures == UNION {[1 .. n -> Annotations] : n \in 0 .. MaxParams}

PyInt1 == [type |-> "int", repr |-> "1"]
PyFloat1 == [type |-> "float", repr |-> "1.0"]
PyFalse == [type |-> "bool", repr |-> "False"]
PyNone == [type |-> "NoneType", repr |-> "None"]
Tensor1 == [type |-> "Tensor", repr |-> "torch.empty([1])"]

\* A faulty variant of FakeValue: the types are told apart by issubclass, and bool is
\* a subclass of int.
FakeValueSubclass(ann, emptyRaises) ==
    IF ann \in {"int", "bool"} THEN PyInt1
    ELSE IF ann = "float" THEN PyFloat1
    ELSE IF emptyRaises THEN PyNone
    ELSE Tensor1

\* The value appended for one parameter: the if / elif chain on
\* "ann is int", "ann is float", "ann is bool", else torch.empty([1]), and
\* None when that call raises.
FakeValue(ann, emptyRaises) ==
    IF ann = "int" THEN PyInt1
    ELSE IF ann = "float" THEN PyFloat1
    ELSE IF ann = "bool" THEN PyFalse
    ELSE IF emptyRaises THEN PyNone
    ELSE Tensor1

\* try: import torch / except Exception: return tuple()
ImportTorch ==
    /\ mfaPc = "start"
    /\ IF torchOk
       THEN mfaPc' = "signature"
       ELSE mfaPc' = "returned"
    /\ UNCHANGED <<envVars, procVars, runVars, sig, torchOk, fake_args,
                   emptyRaised>>

\* sig = inspect.signature(kernel.fn); fake_args = []
Signature ==
    /\ mfaPc = "signature"
    /\ mfaPc' = "loop"
    /\ UNCHANGED <<envVars, procVars, runVars, sig, torchOk, fake_args,
                   emptyRaised>>

\* One iteration of "for param in sig.parameters.values()".
AppendFake ==
    /\ mfaPc = "loop"
    /\ Len(fake_args) < Len(sig)
    /\ LET i   == Len(fake_args) + 1
           ann == sig[i]
       IN  \E emptyRaises \in BOOLEAN :
              /\ emptyRaises => ann \notin {"int", "float", "bool"}
              /\ fake_args' = Append(fake_args, FakeValue(ann, emptyRaises))
              /\ emptyRaised' = IF emptyRaises THEN emptyRaised \cup {i}
                                ELSE emptyRaised
    /\ UNCHANGED <<envVars, procVars, runVars, sig, torchOk, mfaPc>>

\* return tuple(fake_args)
ReturnFake ==
    /\ mfaPc = "loop"
    /\ Len(fake_args) = Len(sig)
    /\ mfaPc' = "returned"
    /\ UNCHANGED <<envVars, procVars, runVars, sig, torchOk, fake_args,
                   emptyRaised>>

InitArgs ==
    /\ argv = [inputfile |-> TRUE, outputfile |-> TRUE]
    /\ infile = NoFile
    /\ fileExists = FALSE
    /\ content = <<>>
    /\ ProcInit
    /\ run = 1
    /\ firstOut = <<>>
    /\ firstStatus = <<>>
    /\ sig \in Signatures
    /\ torchOk \in BOOLEAN
    /\ mfaPc = "start"
    /\ fake_args = <<>>
    /\ emptyRaised = {}

NextArgs ==
    \/ ImportTorch
    \/ Signature
    \/ AppendFake
    \/ ReturnFake

SpecArgs == InitArgs /\ [][NextArgs]_vars

----------------------------------------------------------------------------
(* Properties *)

\* The names of the input module that do not start with an underscore.
PublicNames == { <<"a">>, <<"b">> }

\* The Kernel instances bound to at least one public name of the input.
PublicKernels == {infile.ns[n] : n \in PublicNames} \cap Kernels

\* The first line of kernel k's callable as the input declares it, 0 when it
\* cannot be read.
DeclaredLine(k) ==
    IF infile.fn[k].hasCode THEN infile.fn[k].co_firstlineno ELSE 0

\* The blocks of the kernels of ks whose sequence does not raise, in the order
\* of ks: the generated code followed by two newline characters.
RECURSIVE Blocks(_)
Blocks(ks) ==
    IF ks = <<>> THEN <<>>
    ELSE (IF infile.raises[Head(ks)] THEN <<>>
          ELSE << [text |-> "triton code", k |-> Head(ks)], NL, NL >>)
         \o Blocks(Tail(ks))

InitialContent == IF fileExists THEN <<OldText>> ELSE <<>>

IsPrefix(s, t) == Len(s) <= Len(t) /\ s = SubSeq(t, 1, Len(s))

\* What the handler is to write for each exception of the model: one line per
\* element of args, or the string form when args is empty.
ReportOf(type) ==
    CASE type = "FileNotFoundError" ->
            << Line("2"), Line("No such file or directory") >>
      [] type = "AssertionError" -> << Line("") >>
      [] type = "RuntimeError" -> << Line("boom") >>
      [] type = "CustomError" -> << Line("custom text") >>
      [] type = "ModuleNotFoundError" -> << Line("No module named 'helion'") >>
      [] type = "PermissionError" -> << Line("13"), Line("Permission denied") >>
      [] type = "OSError" -> << Line("28"), Line("No space left on device") >>
      [] OTHER -> <<>>

TopLevelSites == {"load", "import", "open"}

(* C1, as stated: a kernel whose sequence raises leaves nothing in the output
   file and nothing on stderr and the loop goes on, so that at the end of
   every run that entered the loop the file holds exactly the blocks of the
   kernels whose sequence succeeded, in processing order. *)
C1_FinalOutputAlways ==
    /\ (pc = "loop" /\ outOpen) =>
          (content = Blocks(SubSeq(kernels, 1, idx)) /\ stderr = <<>>)
    /\ (pc = "exited" /\ opens = 1) => content = Blocks(kernels)

(* C1, amended: the same, the final content being that of a run in which no
   write to the output file raised; such a run ends with status 0 and an
   empty stderr whatever kernels raised. *)
C1_SkipOnError ==
    /\ (pc = "loop" /\ outOpen) =>
          (content = Blocks(SubSeq(kernels, 1, idx)) /\ stderr = <<>>)
    /\ (pc = "exited" /\ opens = 1 /\ error.site # "write") =>
          /\ content = Blocks(kernels)
          /\ stderr = <<>>
          /\ exitStatus = <<ExitOk>>
          /\ idx = Len(kernels)

\* A run that skipped a raising kernel and then wrote the next one.
C1_Witness ==
    /\ pc = "exited"
    /\ exitStatus = <<ExitOk>>
    /\ Len(kernels) = 2
    /\ infile.raises[kernels[1]]
    /\ ~infile.raises[kernels[2]]
    /\ content = << [text |-> "triton code", k |-> kernels[2]], NL, NL >>

(* C2, as stated: an Exception of module load, library import or opening
   the output file reaches the handler, which writes one line per element of
   args (the string form when args is empty) to stderr and exits with status
   255; a nonexistent input file ends with 255 and a message on stderr. *)
C2_ReportAlwaysWritten ==
    /\ error.site \in TopLevelSites => pc \in {"handler", "exited"}
    /\ (pc = "exited" /\ error.site \in TopLevelSites) =>
          /\ exitStatus = <<ExitError>>
          /\ stderr = ReportOf(error.type)
    /\ (pc = "exited" /\ argv.inputfile /\ argv.outputfile /\ ~infile.exists) =>
          /\ exitStatus = <<ExitError>>
          /\ stderr # <<>>

(* C2, amended: the same, except that the write to stderr is best effort: when
   it raises, which is suppressed, stderr holds only the lines written before
   (a proper prefix of the report); the exit status is 255 in every case. *)
C2_TopLevelHandler ==
    /\ error.site \in TopLevelSites => pc \in {"handler", "exited"}
    /\ (pc = "exited" /\ error.site \in TopLevelSites) =>
          /\ exitStatus = <<ExitError>>
          /\ ~stderrRaised => stderr = ReportOf(error.type)
          /\ stderrRaised =>
                /\ IsPrefix(stderr, ReportOf(error.type))
                /\ stderr # ReportOf(error.type)
    /\ (pc = "exited" /\ argv.inputfile /\ argv.outputfile /\ ~infile.exists) =>
          /\ exitStatus = <<ExitError>>
          /\ error.site = "load"
          /\ ~stderrRaised => stderr # <<>>

\* A nonexistent input file reported in full.
C2_Witness ==
    /\ pc = "exited"
    /\ ~infile.exists
    /\ error.site = "load"
    /\ error.type = "FileNotFoundError"
    /\ stderr = << Line("2"), Line("No such file or directory") >>
    /\ exitStatus = <<ExitError>>

(* C3, as stated: when the module loads and the library imports, and no
   public kernel exists or every one raises, the run ends with the output
   file created, empty, and status 0. *)
C3_EmptyOutputAlways ==
    (/\ pc = "exited"
     /\ loaded
     /\ imported
     /\ \A k \in PublicKernels : infile.raises[k])
    => (exitStatus = <<ExitOk>> /\ fileExists /\ content = <<>>)

(* C3, amended: the same when, in addition, opening the output file does not
   raise. *)
C3_EmptyOutput ==
    (/\ pc = "exited"
     /\ loaded
     /\ imported
     /\ error.site # "open"
     /\ \A k \in PublicKernels : infile.raises[k])
    => (exitStatus = <<ExitOk>> /\ fileExists /\ content = <<>> /\ opens = 1)

\* A run over a module all of whose kernels raise.
C3_Witness ==
    /\ pc = "exited"
    /\ PublicKernels # {}
    /\ \A k \in PublicKernels : infile.raises[k]
    /\ idx = Cardinality(PublicKernels)
    /\ exitStatus = <<ExitOk>>
    /\ content = <<>>
    /\ fileExists

(* C4: of two kernels that both have a block in the output, the one with the
   smaller first line number (0 when unreadable) has its block first, whatever
   the name order in which they were discovered. *)
C4_LineOrder ==
    \A i, j \in DOMAIN content :
        (/\ content[i].text = "triton code"
         /\ content[j].text = "triton code"
         /\ DeclaredLine(content[i].k) < DeclaredLine(content[j].k))
        => i < j

\* Both kernels written, the one discovered second (name b) first.
C4_Witness ==
    /\ pc = "exited"
    /\ mod[<<"a">>] \in Kernels
    /\ mod[<<"b">>] \in Kernels
    /\ DeclaredLine(mod[<<"b">>]) < DeclaredLine(mod[<<"a">>])
    /\ content = << [text |-> "triton code", k |-> mod[<<"b">>]], NL, NL,
                    [text |-> "triton code", k |-> mod[<<"a">>]], NL, NL >>

(* C5: once discovery is done, the list main iterates holds exactly the Kernel
   instances bound to a public name, each once; before, it is empty.  So no
   block is written for a private-only kernel or a non-kernel, no kernel has
   two blocks, and a run ending with status 0 has processed every one. *)
C5_DiscoveredSet ==
    /\ (imported /\ pc # "discover") =>
          /\ SetOf(kernels) = PublicKernels
          /\ Len(kernels) = Cardinality(PublicKernels)
    /\ ~(imported /\ pc # "discover") => kernels = <<>>
    /\ idx <= Len(kernels)
    /\ \A i \in DOMAIN content :
          content[i].text = "triton code" => content[i].k \in PublicKernels
    /\ \A i, j \in DOMAIN content :
          (content[i].text = "triton code" /\ content[i] = content[j]) => i = j
    /\ (pc = "exited" /\ exitStatus = <<ExitOk>>) => idx = Len(kernels)

\* One kernel under both public names, another under the private name only.
C5_Witness ==
    /\ pc = "exited"
    /\ exitStatus = <<ExitOk>>
    /\ mod[<<"a">>] \in Kernels
    /\ mod[<<"b">>] = mod[<<"a">>]
    /\ mod[<<"_", "k">>] \in Kernels \ {mod[<<"a">>]}
    /\ kernels = << mod[<<"a">>] >>
    /\ content = << [text |-> "triton code", k |-> mod[<<"a">>]], NL, NL >>

(* C6: two runs of the tool on the same input that both end with status 0
   leave the same output file content, also when discovered kernels share a
   sort key. *)
C6_ByteIdentical ==
    (/\ run = 2
     /\ pc = "exited"
     /\ exitStatus = <<ExitOk>>
     /\ firstStatus = <<ExitOk>>)
    => content = firstOut

(* Supplement to C6: the same two runs leave the same content when no two
   public kernels share a sort key, so the ties alone decide C6. *)
ByteIdenticalWithDistinctKeys ==
    (/\ run = 2
     /\ pc = "exited"
     /\ exitStatus = <<ExitOk>>
     /\ firstStatus = <<ExitOk>>
     /\ \A k1, k2 \in PublicKernels :
           k1 # k2 => DeclaredLine(k1) # DeclaredLine(k2))
    => content = firstOut

(* C7: when torch imports, the tuple returned has one value per parameter, in
   order: 1 for int, 1.0 for float, False for bool, and for any other or
   missing annotation the one-element tensor, or None when torch.empty
   raised. *)
C7_FakeArgs ==
    (mfaPc = "returned" /\ torchOk) =>
        /\ Len(fake_args) = Len(sig)
        /\ \A i \in DOMAIN sig :
              /\ sig[i] = "int" => fake_args[i] = [type |-> "int", repr |-> "1"]
              /\ sig[i] = "float" =>
                    fake_args[i] = [type |-> "float", repr |-> "1.0"]
              /\ sig[i] = "bool" =>
                    fake_args[i] = [type |-> "bool", repr |-> "False"]
              /\ (sig[i] \notin {"int", "float", "bool"} /\ i \notin emptyRaised)
                    => fake_args[i] = [type |-> "Tensor", repr |-> "torch.empty([1])"]
              /\ (sig[i] \notin {"int", "float", "bool"} /\ i \in emptyRaised)
                    => fake_args[i] = [type |-> "NoneType", repr |-> "None"]

\* The callable of the spec's example: int, float, bool, and an untyped one.
C7_Witness ==
    /\ mfaPc = "returned"
    /\ torchOk
    /\ sig = <<"int", "float", "bool", "empty">>
    /\ fake_args = << [type |-> "int", repr |-> "1"],
                      [type |-> "float", repr |-> "1.0"],
                      [type |-> "bool", repr |-> "False"],
                      [type |-> "Tensor", repr |-> "torch.empty([1])"] >>

(* C8: with a required flag missing the process ends in parse_args with a
   status that is neither 0 nor 255; the try block is not entered: the module
   is not loaded, no exception reaches the handler, and the output file is
   neither opened nor created nor changed. *)
C8_MissingFlag ==
    (~argv.inputfile \/ ~argv.outputfile) =>
        /\ pc \in {"parse", "exited"}
        /\ ~loaded
        /\ ~imported
        /\ error.site = "none"
        /\ opens = 0
        /\ ~outOpen
        /\ content = InitialContent
        /\ pc = "exited" =>
              /\ exitStatus # <<>>
              /\ exitStatus # <<ExitOk>>
              /\ exitStatus # <<ExitError>>

\* The run without --outputfile has ended.
C8_Witness ==
    /\ pc = "exited"
    /\ argv.inputfile
    /\ ~argv.outputfile
    /\ exitStatus # <<>>

(* C9: the output file is opened at most once in a run, and a handle that was
   opened is closed when the handler runs and when the process has ended. *)
C9_OpenedOnceClosed ==
    /\ opens <= 1
    /\ outOpen => opens = 1
    /\ pc \in {"handler", "exited"} => ~outOpen

\* A run that ended through the handler after a write raised.
C9_Witness ==
    /\ pc = "exited"
    /\ opens = 1
    /\ error.site = "write"
    /\ exitStatus = <<ExitError>>
    /\ ~outOpen

(* C10: the library is imported only after the module was executed, and the
   output file is opened only after load, import and discovery; when load or
   import raises, the run ends with status 255 and the file at the output
   path is as it was: not created, not truncated. *)
C10_StepOrder ==
    /\ imported => loaded
    /\ pc \in {"discover", "open"} => (loaded /\ imported)
    /\ (opens >= 1 \/ outOpen) =>
          /\ loaded
          /\ imported
          /\ pc \notin {"parse", "load", "import", "discover", "open"}
    /\ opens = 0 => content = InitialContent
    /\ error.site \in {"load", "import"} =>
          /\ opens = 0
          /\ ~outOpen
          /\ content = InitialContent
          /\ pc = "exited" => exitStatus = <<ExitError>>

\* The import raised with a file already at the output path.
C10_Witness ==
    /\ pc = "exited"
    /\ error.site = "import"
    /\ loaded
    /\ fileExists
    /\ content = <<OldText>>
    /\ exitStatus = <<ExitError>>

====
